---- MODULE Spec2Model ----
(***************************************************************************)
(* Model of the Nuclear Shielding Design Suite (src/app.py).               *)
(*                                                                         *)
(* The script is re-executed from top to bottom every time a widget        *)
(* changes; a run reads the widget values, draws the comparison curves,    *)
(* builds the reference table and computes the floor loading.  All the     *)
(* numbers are Python floats (IEEE-754 binary64), so the arithmetic below  *)
(* is binary64 arithmetic with round-to-nearest-even, carried out on       *)
(* arbitrary-precision naturals.                                           *)
(***************************************************************************)
EXTENDS Integers, Sequences, FiniteSets, TLC

(***************************************************************************)
(* Arbitrary-precision naturals: little-endian sequences of limbs, the     *)
(* most significant limb non-zero, <<>> for 0.                             *)
(***************************************************************************)
LIMB_BITS == 12
BASE == 4096
\* binary64 carries 53 significant bits
PRECISION == 53

Max(a, b) == IF a >= b THEN a ELSE b
Min(a, b) == IF a <= b THEN a ELSE b
Abs(n) == IF n < 0 THEN -n ELSE n

\* the sequence f with its elements evaluated once (a list, an array)
List(f) == f @@ <<>>

Limb(a, i) == IF i <= Len(a) THEN a[i] ELSE 0

\* index of the most significant non-zero limb, 0 if there is none
BLen(a) ==
    IF \A i \in 1..Len(a) : a[i] = 0 THEN 0
    ELSE CHOOSE i \in 1..Len(a) : a[i] # 0 /\ \A j \in (i + 1)..Len(a) : a[j] = 0

BTrim(a) == SubSeq(a, 1, BLen(a))

\* 0 <= n < 2^31
BFromInt(n) == BTrim(<<n % BASE, (n \div BASE) % BASE, n \div (BASE * BASE)>>)

\* a < 2^31
BToInt(a) == Limb(a, 1) + BASE * Limb(a, 2) + BASE * BASE * Limb(a, 3)

\* a carry enters column i of the columns s (each at most 2 * BASE - 2): a
\* lower column overflows and every column in between is full
CarryInto(s, i) ==
    \E j \in 1..(i - 1) : s[j] >= BASE /\ \A k \in (j + 1)..(i - 1) : s[k] = BASE - 1

Carried(s) ==
    List([i \in 1..(Len(s) + 1) |->
            (Limb(s, i) + (IF CarryInto(s, i) THEN 1 ELSE 0)) % BASE])

\* every column keeps its low limb and passes the rest to the next column
Spill(s) ==
    List([i \in 1..(Len(s) + 1) |->
            (Limb(s, i) % BASE) + (IF i > 1 THEN s[i - 1] \div BASE ELSE 0)])

\* the natural sum of s[i] * BASE^(i-1), each s[i] < 2^31: after three
\* rounds of spilling no column exceeds BASE
BFromColumns(s) == BTrim(Carried(Spill(Spill(Spill(s)))))

BAdd(a, b) ==
    BTrim(Carried(List([i \in 1..Max(Len(a), Len(b)) |-> Limb(a, i) + Limb(b, i)])))

\* a borrow is taken from limb i of a - b
BorrowInto(a, b, i) ==
    \E j \in 1..(i - 1) :
        Limb(a, j) < Limb(b, j) /\ \A k \in (j + 1)..(i - 1) : Limb(a, k) = Limb(b, k)

\* a - b for a >= b
BSub(a, b) ==
    BTrim(List([i \in 1..Len(a) |->
                  (a[i] - Limb(b, i) - (IF BorrowInto(a, b, i) THEN 1 ELSE 0) + BASE) % BASE]))

\* -1, 0, 1 as a < b, a = b, a > b
BCmp(a, b) ==
    IF Len(a) > Len(b) THEN 1
    ELSE IF Len(a) < Len(b) THEN -1
    ELSE IF \A i \in 1..Len(a) : a[i] = b[i] THEN 0
    ELSE IF \E i \in 1..Len(a) : a[i] > b[i] /\ \A j \in (i + 1)..Len(a) : a[j] = b[j]
    THEN 1 ELSE -1

\* a * k for 0 <= k < 2^19
BMulSmall(a, k) == BFromColumns(List([i \in 1..Len(a) |-> a[i] * k]))

BShiftLimbs(a, n) == IF Len(a) = 0 THEN <<>> ELSE [i \in 1..n |-> 0] \o a

RECURSIVE Column(_, _, _, _)
\* sum of a[j] * b[c + 1 - j] over j >= i
Column(a, b, c, i) ==
    IF i > Len(a) \/ i > c THEN 0
    ELSE (a[i] * Limb(b, c + 1 - i)) + Column(a, b, c, i + 1)

BMul(a, b) == BFromColumns(List([c \in 1..(Len(a) + Len(b)) |-> Column(a, b, c, 1)]))

\* a * 2^n
BShl(a, n) == BShiftLimbs(BMulSmall(a, 2^(n % LIMB_BITS)), n \div LIMB_BITS)

\* floor(a / 2^k) for k < LIMB_BITS
BDropBits(a, k) ==
    BTrim(List([i \in 1..Len(a) |->
                  (a[i] \div 2^k) + (Limb(a, i + 1) % 2^k) * 2^(LIMB_BITS - k)]))

\* floor(a / 2^n)
BShr(a, n) ==
    IF n \div LIMB_BITS >= Len(a) THEN <<>>
    ELSE BDropBits(SubSeq(a, n \div LIMB_BITS + 1, Len(a)), n % LIMB_BITS)

\* bit i of a, bit 0 the least significant
BBit(a, i) == (Limb(a, i \div LIMB_BITS + 1) \div 2^(i % LIMB_BITS)) % 2

\* a mod 2^n # 0
BLowNonZero(a, n) ==
    \/ \E i \in 1..(n \div LIMB_BITS) : Limb(a, i) # 0
    \/ Limb(a, n \div LIMB_BITS + 1) % 2^(n % LIMB_BITS) # 0

\* number of bits of a limb
BitLenSmall(n) == CHOOSE k \in 0..LIMB_BITS : n < 2^k /\ (k = 0 \/ n >= 2^(k - 1))

BBitLen(a) ==
    IF Len(a) = 0 THEN 0 ELSE (Len(a) - 1) * LIMB_BITS + BitLenSmall(a[Len(a)])

BIsOdd(a) == Limb(a, 1) % 2 = 1

SetMax(S) == CHOOSE x \in S : \A y \in S : y <= x

\* the largest d with b * d <= cur among q0, q0 - 1 and q0 - 2
FitDigit(cur, b, q0) ==
    SetMax({d \in Max(0, q0 - 2)..q0 : BCmp(BMulSmall(b, d), cur) <= 0})

\* the largest d with b * d <= cur, for cur < b * BASE and the top limb of b
\* at least BASE / 2: the two top limbs of cur by the top limb of b
\* overestimate d by at most 2
DivDigit(cur, b) ==
    FitDigit(cur, b,
             Min(BASE - 1,
                 (Limb(cur, Len(b) + 1) * BASE + Limb(cur, Len(b))) \div b[Len(b)]))

DivTake(q, cur, b, d) == [q |-> <<d>> \o q, r |-> BSub(cur, BMulSmall(b, d))]

DivAt(q, cur, b) == DivTake(q, cur, b, DivDigit(cur, b))

\* one step of long division: the next limb is brought down
DivStep(st, limb, b) == DivAt(st.q, BTrim(<<limb>> \o st.r), b)

RECURSIVE BDivLimbs(_, _, _)
\* quotient and remainder of the limbs i.. of a by b
BDivLimbs(a, b, i) ==
    IF i > Len(a) - Len(b) + 1
    THEN [q |-> <<>>, r |-> BTrim(SubSeq(a, Max(i, 1), Len(a)))]
    ELSE DivStep(BDivLimbs(a, b, i + 1), a[i], b)

BDivOut(d, sh) == [q |-> BTrim(d.q), r |-> BShr(d.r, sh)]

\* quotient and remainder of a by b, both scaled by 2^sh for the division
BDivScaled(a, b, sh) == BDivOut(BDivLimbs(BShl(a, sh), BShl(b, sh), 1), sh)

\* quotient and remainder of a by b, b # 0
BDivMod(a, b) == BDivScaled(a, b, LIMB_BITS - BitLenSmall(b[Len(b)]))

\* the natural hi * 10^8 + lo
BFromDecimal(hi, lo) == BAdd(BMul(BFromInt(hi), BFromInt(10^8)), BFromInt(lo))

(***************************************************************************)
(* binary64 values: (-1)^sign * man * 2^exp with man of exactly 53 bits,   *)
(* or man = <<>> for a zero.  The values of this program stay far from     *)
(* the subnormal and overflow ranges.                                      *)
(***************************************************************************)
FZero(s) == [sign |-> s, man |-> <<>>, exp |-> 0]

IsZero(x) == Len(x.man) = 0

\* the PRECISION + sh bits of m are cut to the upper PRECISION ones, q:
\* round up above the half, and at the half if q is odd
RoundUp(m, sh, sticky, q) ==
    BBit(m, sh - 1) = 1 /\ (sticky \/ BLowNonZero(m, sh - 1) \/ BIsOdd(q))

\* rounding up may carry into a bit more
Rounded(s, q, e) ==
    IF BBitLen(q) > PRECISION
    THEN [sign |-> s, man |-> BShr(q, 1), exp |-> e + 1]
    ELSE [sign |-> s, man |-> q, exp |-> e]

RoundKept(s, m, e, sh, sticky, q) ==
    Rounded(s, IF RoundUp(m, sh, sticky, q) THEN BAdd(q, <<1>>) ELSE q, e + sh)

\* n the number of bits of m
RoundBits(s, m, e, sticky, n) ==
    IF n = 0 THEN FZero(s)
    ELSE IF n <= PRECISION
    THEN [sign |-> s, man |-> BShl(m, PRECISION - n), exp |-> e - (PRECISION - n)]
    ELSE RoundKept(s, m, e, n - PRECISION, sticky, BShr(m, n - PRECISION))

\* the binary64 nearest to (-1)^s * (m + f) * 2^e, ties to even, where
\* 0 < f < 1 if sticky and f = 0 otherwise
RoundToFloat(s, m, e, sticky) == RoundBits(s, m, e, sticky, BBitLen(m))

RatioOf(s, d, e) == RoundToFloat(s, d.q, e, Len(d.r) # 0)

\* num is scaled by 2^k to give a quotient of at least PRECISION + 2 bits
RatioScaled(s, num, den, e, k) == RatioOf(s, BDivMod(BShl(num, k), den), e - k)

\* the binary64 nearest to (-1)^s * (num / den) * 2^e
Ratio(s, num, den, e) ==
    IF Len(num) = 0 THEN FZero(s)
    ELSE RatioScaled(s, num, den, e, Max(0, PRECISION + 2 + BBitLen(den) - BBitLen(num)))

\* int -> float
FromInt(n) == RoundToFloat(IF n < 0 THEN 1 ELSE 0, BFromInt(Abs(n)), 0, FALSE)

\* a decimal literal n/d (d a power of ten), as the parser reads it
Dec(n, d) == Ratio(IF n < 0 THEN 1 ELSE 0, BFromInt(Abs(n)), BFromInt(d), 0)

FNeg(x) == [x EXCEPT !.sign = 1 - @]

FMul(x, y) ==
    IF IsZero(x) \/ IsZero(y) THEN FZero((x.sign + y.sign) % 2)
    ELSE RoundToFloat((x.sign + y.sign) % 2, BMul(x.man, y.man), x.exp + y.exp, FALSE)

\* x / y for y # 0
FDiv(x, y) == Ratio((x.sign + y.sign) % 2, x.man, y.man, x.exp - y.exp)

\* sign and magnitude of (-1)^sa * A + (-1)^sb * B, c comparing A with B
SignedSum(sa, A, sb, B, c) ==
    IF sa = sb THEN [sign |-> sa, mag |-> BAdd(A, B)]
    ELSE IF c = 0 THEN [sign |-> 0, mag |-> <<>>]
    ELSE IF c > 0 THEN [sign |-> sa, mag |-> BSub(A, B)]
    ELSE [sign |-> sb, mag |-> BSub(B, A)]

FromSigned(sm, e) == RoundToFloat(sm.sign, sm.mag, e, FALSE)

\* (-1)^sa * A * 2^e + (-1)^sb * B * 2^e
AddAligned(sa, A, sb, B, e) == FromSigned(SignedSum(sa, A, sb, B, BCmp(A, B)), e)

AddAt(x, y, e) == AddAligned(x.sign, BShl(x.man, x.exp - e), y.sign, BShl(y.man, y.exp - e), e)

FAdd(x, y) ==
    IF IsZero(x) /\ IsZero(y) THEN FZero(IF x.sign = 1 /\ y.sign = 1 THEN 1 ELSE 0)
    ELSE IF IsZero(x) THEN y
    ELSE IF IsZero(y) THEN x
    ELSE AddAt(x, y, Min(x.exp, y.exp))

FSub(x, y) == FAdd(x, FNeg(y))

\* -1, 0, 1 as |x| < |y|, |x| = |y|, |x| > |y|
MagCmp(x, y) ==
    IF IsZero(x) /\ IsZero(y) THEN 0
    ELSE IF IsZero(x) THEN -1
    ELSE IF IsZero(y) THEN 1
    ELSE IF x.exp > y.exp THEN 1
    ELSE IF x.exp < y.exp THEN -1
    ELSE BCmp(x.man, y.man)

\* -1, 0, 1 as x < y, x = y, x > y
FCmp(x, y) ==
    IF x.sign # y.sign
    THEN (IF IsZero(x) /\ IsZero(y) THEN 0 ELSE IF x.sign = 1 THEN -1 ELSE 1)
    ELSE IF x.sign = 0 THEN MagCmp(x, y) ELSE -MagCmp(x, y)

\* M / 2^sh rounded to an integer, ties to even; q is floor(M / 2^sh)
FmtRounded(s, M, sh, q) ==
    [neg |-> s = 1,
     val |-> BToInt(IF sh > 0 /\ RoundUp(M, sh, FALSE, q) THEN BAdd(q, <<1>>) ELSE q)]

FmtScaled(s, M, sh) ==
    FmtRounded(s, M, sh, IF sh <= 0 THEN BShl(M, -sh) ELSE BShr(M, sh))

\* format(x, ",.<d>f"): |x| * 10^d rounded to an integer, ties to even, and
\* the sign the text starts with
Fmt(x, d) == FmtScaled(x.sign, BMulSmall(x.man, 10^d), -x.exp)

(***************************************************************************)
(* The materials database, src/app.py lines 11-22.                         *)
(***************************************************************************)
\* the dict literal: each number by its digits and the power of ten under
\* them, "mu": 0.771 as <<771, 1000>>
MaterialsLiteral ==
    "Lead (Pb)" :> [mu |-> <<771, 1000>>, density |-> <<1134, 100>>, color |-> "#7f8c8d", b_slope |-> <<12, 10>>]
    @@ "Tungsten Heavy Alloy (WHA)" :> [mu |-> <<1250, 1000>>, density |-> <<1850, 100>>, color |-> "#2c3e50", b_slope |-> <<11, 10>>]
    @@ "Depleted Uranium (DU)" :> [mu |-> <<1300, 1000>>, density |-> <<1900, 100>>, color |-> "#1abc9c", b_slope |-> <<105, 100>>]
    @@ "Lead-Antimony Alloy" :> [mu |-> <<750, 1000>>, density |-> <<1100, 100>>, color |-> "#95a5a6", b_slope |-> <<125, 100>>]
    @@ "Iron (Fe)" :> [mu |-> <<443, 1000>>, density |-> <<787, 100>>, color |-> "#a04000", b_slope |-> <<18, 10>>]
    @@ "Concrete (Standard)" :> [mu |-> <<151, 1000>>, density |-> <<235, 100>>, color |-> "#bdc3c7", b_slope |-> <<25, 10>>]
    @@ "Water (H2O)" :> [mu |-> <<70, 1000>>, density |-> <<100, 100>>, color |-> "#3498db", b_slope |-> <<32, 10>>]
    @@ "Inconel 718" :> [mu |-> <<480, 1000>>, density |-> <<819, 100>>, color |-> "#f39c12", b_slope |-> <<17, 10>>]
    @@ "Wood's Metal" :> [mu |-> <<650, 1000>>, density |-> <<960, 100>>, color |-> "#e74c3c", b_slope |-> <<15, 10>>]
    @@ "Tantalum (Ta)" :> [mu |-> <<950, 1000>>, density |-> <<1669, 100>>, color |-> "#9b59b6", b_slope |-> <<115, 100>>]

\* the float a number of the literal is read as
Number(lit) == Dec(lit[1], lit[2])

\* one entry of the dict
Material(lit) ==
    [mu |-> Number(lit.mu), density |-> Number(lit.density), color |-> lit.color,
     b_slope |-> Number(lit.b_slope)]

\* the dict MATERIALS is bound to
MaterialsDatabase ==
    [name \in DOMAIN MaterialsLiteral |-> Material(MaterialsLiteral[name])] @@ <<>>

(***************************************************************************)
(* The physics engine, src/app.py lines 39-42.                             *)
(***************************************************************************)
One == FromInt(1)

\* B * np.exp(a): exp(+-0) is exactly 1; for any other argument the value
\* of the library's exp is left uninterpreted and the product is kept as
\* the pair (B, a)
TimesExp(B, a) ==
    [factor |-> B, exp_of |-> a,
     value |-> IF IsZero(a) THEN <<FMul(B, One)>> ELSE <<>>]

\* attenuation_at with the build-up factor b_slope * mfp, its "1 +" lost
attenuation_at_without_unit(t, mu, b_slope) ==
    TimesExp(FMul(b_slope, FMul(mu, t)), FNeg(FMul(mu, t)))

\* one element of the array expression of calculate_attenuation
attenuation_at(t, mu, b_slope) ==
    LET mfp == FMul(mu, t)
        B   == FAdd(One, FMul(b_slope, mfp))
    IN  TimesExp(B, FNeg(mfp))

calculate_attenuation(thickness_range, mu, b_slope) ==
    List([i \in 1..Len(thickness_range) |-> attenuation_at(thickness_range[i], mu, b_slope)])

(***************************************************************************)
(* Performance Curves tab, src/app.py lines 47-83.                         *)
(***************************************************************************)
\* np.linspace samples this many points
NUM_SAMPLES == 200
\* the curve is modelled at the sample indices 0..MaxSampleIdx
MaxSampleIdx == 2

\* np.linspace(start, stop, 200)[i]: arange(200)[i] * step + start
linspace_at(start, stop, i) ==
    FAdd(FMul(FromInt(i), FDiv(FSub(stop, start), FromInt(NUM_SAMPLES - 1))), start)

\* np.linspace(0, max_thick, 200), its first points
x_vals(maxThick) ==
    List([i \in 1..(MaxSampleIdx + 1) |-> linspace_at(FromInt(0), FromInt(maxThick), i - 1)])

\* np.log(2) = 0.6931471805599453 and np.log(10) = 2.302585092994046
LN2  == Ratio(0, BFromDecimal(69314718, 5599453), BFromDecimal(10^8, 0), 0)
LN10 == Ratio(0, BFromDecimal(23025850, 92994046), BFromDecimal(10^7, 0), 0)

\* round(v, 2): the decimal with two places nearest to v, ties to even, as a float
Round2(v) == Ratio(v.sign, BFromInt(Fmt(v, 2).val), BFromInt(100), 0)

NoError == [type |-> "none", line |-> 0]

\* index of the first selected name that is no key of the registry, 0 if none
RECURSIVE FirstUnknown(_, _, _)
FirstUnknown(reg, sel, i) ==
    IF i > Len(sel) THEN 0
    ELSE IF sel[i] \notin DOMAIN reg THEN i
    ELSE FirstUnknown(reg, sel, i + 1)

plot_line(reg, name, xs) ==
    LET props == reg[name]
    IN  [label |-> name, color |-> props.color,
         y_vals |-> calculate_attenuation(xs, props.mu, props.b_slope)]

table_row(reg, m) ==
    [Material |-> m,
     Density  |-> reg[m].density,
     HVL      |-> Round2(FDiv(LN2, reg[m].mu)),
     TVL      |-> Round2(FDiv(LN10, reg[m].mu))]

\* the lines the loop of lines 59-62 has drawn after n iterations
plot_lines(reg, selected, n, xs) ==
    List([i \in 1..n |-> plot_line(reg, selected[i], xs)])

\* table_rows with every row put in front of the earlier ones
table_rows_prepended(reg, selected) ==
    List([i \in 1..Len(selected) |-> table_row(reg, selected[Len(selected) + 1 - i])])

\* the rows the loop of lines 74-82 appends
table_rows(reg, selected) ==
    List([i \in 1..Len(selected) |-> table_row(reg, selected[i])])

\* lines 59-62: the loop stops at the first name MATERIALS[name] does not
\* know (KeyError, line 60); bad is the index of that name, 0 if there is none
plot_loop(reg, selected, xs, bad) ==
    [error   |-> IF bad # 0 THEN [type |-> "KeyError", line |-> 60] ELSE NoError,
     plotted |-> plot_lines(reg, selected, IF bad # 0 THEN bad - 1 ELSE Len(selected), xs)]

\* show_compare reading the first row of a table that may have none
show_compare_first_row(reg, selected, p) ==
    IF p.error.type # "none"
    THEN [error |-> p.error, plotted |-> p.plotted, table_data |-> <<>>, shown |-> <<>>]
    ELSE IF Len(selected) = 0
    THEN [error |-> [type |-> "IndexError", line |-> 83], plotted |-> p.plotted,
          table_data |-> <<>>, shown |-> <<"pyplot">>]
    ELSE [error |-> NoError, plotted |-> p.plotted,
          table_data |-> table_rows(reg, selected), shown |-> <<"pyplot", "table">>]

\* lines 64-83, after the loop left p: the figure is shown and the table is
\* built only if the loop got through
show_compare(reg, selected, p) ==
    IF p.error.type # "none"
    THEN [error |-> p.error, plotted |-> p.plotted, table_data |-> <<>>, shown |-> <<>>]
    ELSE [error |-> NoError, plotted |-> p.plotted,
          table_data |-> table_rows(reg, selected), shown |-> <<"pyplot", "table">>]

\* tab_compare skipping the names the registry does not know
tab_compare_skipping(reg, selected, maxThick) ==
    show_compare(reg, SelectSeq(selected, LAMBDA name : name \in DOMAIN reg),
                 plot_loop(reg, SelectSeq(selected, LAMBDA name : name \in DOMAIN reg),
                           x_vals(maxThick), 0))

\* lines 56-83
tab_compare(reg, selected, maxThick) ==
    show_compare(reg, selected,
                 plot_loop(reg, selected, x_vals(maxThick), FirstUnknown(reg, selected, 1)))

(***************************************************************************)
(* Mass & Load tab, src/app.py lines 87-118.  A variable the run has not   *)
(* assigned yet is <<>>, an assigned one is <<value>>.                     *)
(***************************************************************************)
NoLoad ==
    [area |-> <<>>, volume_m3 |-> <<>>, density_kg_m3 |-> <<>>, total_weight |-> <<>>,
     loading |-> <<>>, percent_capacity |-> <<>>]

NoMessage == [kind |-> "none", overage |-> <<>>, text |-> <<>>]

\* line 101: area = wall_h * wall_w
set_area(h, w) == [NoLoad EXCEPT !.area = <<FMul(h, w)>>]

\* line 102: volume_m3 = area * (target_thick / 100)
set_volume_m3(ld, thick) ==
    [ld EXCEPT !.volume_m3 = <<FMul(ld.area[1], FDiv(FromInt(thick), FromInt(100)))>>]

\* line 103: density_kg_m3 = MATERIALS[target_mat]["density"] * 1000
set_density_kg_m3(ld, density) ==
    [ld EXCEPT !.density_kg_m3 = <<FMul(density, FromInt(1000))>>]

\* line 104: total_weight = volume_m3 * density_kg_m3
set_total_weight(ld) ==
    [ld EXCEPT !.total_weight = <<FMul(ld.volume_m3[1], ld.density_kg_m3[1])>>]

\* line 105: loading = total_weight / area, for area # 0
set_loading(ld) ==
    [ld EXCEPT !.loading = <<FDiv(ld.total_weight[1], ld.area[1])>>]

\* line 112: percent_capacity = (loading / floor_max) * 100, for floor_max # 0
set_percent_capacity(ld, floor) ==
    [ld EXCEPT !.percent_capacity = <<FMul(FDiv(ld.loading[1], FromInt(floor)), FromInt(100))>>]

\* lines 109-110: the two st.metric calls before percent_capacity is computed
weight_metrics(ld) ==
    << [label |-> "Total Weight", value |-> Fmt(ld.total_weight[1], 0)],
       [label |-> "Surface Load", value |-> Fmt(ld.loading[1], 0)] >>

\* line 113
all_metrics(ld) ==
    Append(weight_metrics(ld),
           [label |-> "Floor Capacity Used", value |-> Fmt(ld.percent_capacity[1], 1)])

\* line 116: st.error with loading - floor_max formatted to no decimals
overage_message(over) == [kind |-> "error", overage |-> <<over>>, text |-> <<Fmt(over, 0)>>]

\* load_message with the comparison loading >= floor_max
load_message_inclusive(loading, floor) ==
    IF FCmp(loading, FromInt(floor)) >= 0
    THEN overage_message(FSub(loading, FromInt(floor)))
    ELSE [kind |-> "success", overage |-> <<>>, text |-> <<>>]

\* lines 115-118
load_message(loading, floor) ==
    IF FCmp(loading, FromInt(floor)) > 0
    THEN overage_message(FSub(loading, FromInt(floor)))
    ELSE [kind |-> "success", overage |-> <<>>, text |-> <<>>]

\* lines 112-118, ld as line 112 left it
structural_verdict(ld, floor) ==
    [error |-> NoError, load |-> ld, metrics |-> all_metrics(ld),
     message |-> load_message(ld.loading[1], floor)]

\* lines 109-118, ld as line 105 left it: line 112 divides by floor_max
structural_report(ld, floor) ==
    IF floor = 0
    THEN [error |-> [type |-> "ZeroDivisionError", line |-> 112],
          load |-> ld, metrics |-> weight_metrics(ld), message |-> NoMessage]
    ELSE structural_verdict(set_percent_capacity(ld, floor), floor)

\* lines 105-118, ld as line 104 left it: line 105 divides by area
structural_load(ld, floor) ==
    IF IsZero(ld.area[1])
    THEN [error |-> [type |-> "ZeroDivisionError", line |-> 105],
          load |-> ld, metrics |-> <<>>, message |-> NoMessage]
    ELSE structural_report(set_loading(ld), floor)

\* lines 100-118
tab_structural(reg, mat, thick, h, w, floor) ==
    structural_load(
        set_total_weight(set_density_kg_m3(set_volume_m3(set_area(h, w), thick),
                                           reg[mat].density)),
        floor)

(***************************************************************************)
(* Widget values the model draws from.                                     *)
(***************************************************************************)
\* longest selection the multiselect is given
MaxSel == 2

\* "Concrete" is in the multiselect's default list (line 52) and is no key
\* of MATERIALS
SelectableNames == {"Lead (Pb)", "Iron (Fe)", "Water (H2O)", "Concrete"}

DefaultSelection == <<"Lead (Pb)", "Tungsten Heavy Alloy (WHA)", "Concrete", "Iron (Fe)">>

\* a multiselect value: distinct names in the order they were picked
Selections ==
    {s \in UNION {[1..n -> SelectableNames] : n \in 0..MaxSel} :
        \A i, j \in DOMAIN s : i # j => s[i] # s[j]}

MaxThicks == {10, 50}
TargetMaterials == {"Lead (Pb)", "Iron (Fe)", "Concrete (Standard)"}
Thicknesses == {1, 10, 50}
Heights == {Dec(-10, 10), FromInt(0), FromInt(2), Dec(25, 10)}
Widths == {FromInt(0), FromInt(3)}
FloorLimits == {-100, 0, 1000, 1134, 2000}

(***************************************************************************)
(* The script's results: a run is a pure function of the registry and the  *)
(* widget values, so the results are tabulated per registry and looked up  *)
(* by the widget values of the run.                                        *)
(***************************************************************************)
\* the dicts MATERIALS is bound to in the course of a session
Registries == {MaterialsDatabase}

CompareRuns ==
    [reg \in Registries |->
        [sel \in Selections \cup {DefaultSelection}, mt \in MaxThicks |->
            tab_compare(reg, sel, mt)] @@ <<>>] @@ <<>>

StructuralRuns ==
    [reg \in Registries |->
        [mat \in TargetMaterials, thick \in Thicknesses, h \in Heights, w \in Widths,
         floor \in FloorLimits |-> tab_structural(reg, mat, thick, h, w, floor)] @@ <<>>]
    @@ <<>>

\* line 103 converting the entry's density in place
registry_after_conversion(reg, mat) ==
    [reg EXCEPT ![mat].density = FMul(@, FromInt(1000))]

\* the script reads MATERIALS (subscripts at lines 60, 75-79 and 103) and
\* never assigns to it or to one of its entries
registry_after_run(reg, mat) == reg

\* what a run leaves behind, c and s the results of the two tabs: an
\* exception in the first tab ends the run before the second one
script_result(reg, mat, c, s) ==
    IF c.error.type # "none"
    THEN [registry |-> reg, error |-> c.error, plotted |-> c.plotted,
          table_data |-> c.table_data, shown |-> c.shown,
          load |-> NoLoad, metrics |-> <<>>, message |-> NoMessage]
    ELSE [registry |-> registry_after_run(reg, mat), error |-> s.error,
          plotted |-> c.plotted, table_data |-> c.table_data, shown |-> c.shown,
          load |-> s.load, metrics |-> s.metrics, message |-> s.message]

\* one execution of the script, top to bottom
run_script(reg, sel, mt, mat, thick, h, w, floor) ==
    script_result(reg, mat, CompareRuns[reg][sel, mt],
                  StructuralRuns[reg][mat, thick, h, w, floor])

(***************************************************************************)
(* State: the module-level registry, the widget values, what the last      *)
(* execution of the script produced, and a direct call of the engine.      *)
(***************************************************************************)
VARIABLES
    MATERIALS,      \* the registry dict
    max_thick, selected_mats, target_mat, target_thick, wall_h, wall_w, floor_max,
    error,          \* the exception that ended the last run, if any
    plotted,        \* the lines drawn on ax
    table_data,     \* the reference table rows
    shown,          \* st.pyplot / st.table reached
    load,           \* area, volume_m3, ..., percent_capacity as far as assigned
    metrics,        \* the st.metric values shown
    message,        \* st.error / st.success of lines 115-118
    engine_args,    \* <<arguments>> of a call of calculate_attenuation, <<>> if none
    engine_result   \* <<what the call came back with>>, <<>> before it returns

widgets == <<max_thick, selected_mats, target_mat, target_thick, wall_h, wall_w, floor_max>>
outputs == <<error, plotted, table_data, shown, load, metrics, message>>
engine == <<engine_args, engine_result>>
vars == <<MATERIALS, widgets, outputs, engine>>

\* the run r is what the page shows next
Shown(r) ==
    /\ MATERIALS' = r.registry
    /\ error' = r.error
    /\ plotted' = r.plotted
    /\ table_data' = r.table_data
    /\ shown' = r.shown
    /\ load' = r.load
    /\ metrics' = r.metrics
    /\ message' = r.message

\* the script runs with the given widget values
Rerun(sel, mt, mat, thick, h, w, floor) ==
    /\ selected_mats' = sel
    /\ max_thick' = mt
    /\ target_mat' = mat
    /\ target_thick' = thick
    /\ wall_h' = h
    /\ wall_w' = w
    /\ floor_max' = floor
    /\ Shown(run_script(MATERIALS, sel, mt, mat, thick, h, w, floor))

\* the page after the run r
FirstShown(r) ==
    /\ MATERIALS = r.registry
    /\ error = r.error
    /\ plotted = r.plotted
    /\ table_data = r.table_data
    /\ shown = r.shown
    /\ load = r.load
    /\ metrics = r.metrics
    /\ message = r.message

\* first run: every widget returns its default
FirstRun ==
    /\ max_thick = 50
    /\ selected_mats = DefaultSelection
    /\ target_mat = "Lead (Pb)"
    /\ target_thick = 10
    /\ wall_h = Dec(25, 10)
    /\ wall_w = Dec(30, 10)
    /\ floor_max = 2000
    /\ FirstShown(run_script(MaterialsDatabase, DefaultSelection, 50, "Lead (Pb)", 10,
                             Dec(25, 10), Dec(30, 10), 2000))

Init ==
    /\ FirstRun
    /\ engine_args = <<>>
    /\ engine_result = <<>>

\* the widgets of the Mass & Load tab exist once the first tab got through
StructuralWidgetsShown == error.line # 60

SetSelection ==
    /\ UNCHANGED engine
    /\ \E sel \in Selections :
        Rerun(sel, max_thick, target_mat, target_thick, wall_h, wall_w, floor_max)

\* the thickness slider is rebuilt for the new maximum and returns its default
SetMaxThick ==
    /\ UNCHANGED engine
    /\ \E mt \in MaxThicks :
        Rerun(selected_mats, mt, target_mat, 10, wall_h, wall_w, floor_max)

SetTargetMat ==
    /\ StructuralWidgetsShown
    /\ UNCHANGED engine
    /\ \E mat \in TargetMaterials :
        Rerun(selected_mats, max_thick, mat, target_thick, wall_h, wall_w, floor_max)

SetTargetThick ==
    /\ StructuralWidgetsShown
    /\ UNCHANGED engine
    /\ \E thick \in Thicknesses :
        /\ thick <= max_thick
        /\ Rerun(selected_mats, max_thick, target_mat, thick, wall_h, wall_w, floor_max)

SetWallHeight ==
    /\ StructuralWidgetsShown
    /\ UNCHANGED engine
    /\ \E h \in Heights :
        Rerun(selected_mats, max_thick, target_mat, target_thick, h, wall_w, floor_max)

SetWallWidth ==
    /\ StructuralWidgetsShown
    /\ UNCHANGED engine
    /\ \E w \in Widths :
        Rerun(selected_mats, max_thick, target_mat, target_thick, wall_h, w, floor_max)

SetFloorLimit ==
    /\ StructuralWidgetsShown
    /\ UNCHANGED engine
    /\ \E floor \in FloorLimits :
        Rerun(selected_mats, max_thick, target_mat, target_thick, wall_h, wall_w, floor)

Next ==
    \/ SetSelection
    \/ SetMaxThick
    \/ SetTargetMat
    \/ SetTargetThick
    \/ SetWallHeight
    \/ SetWallWidth
    \/ SetFloorLimit

Spec == Init /\ [][Next]_vars

(***************************************************************************)
(* calculate_attenuation called on its own, with arguments of the caller's *)
(* choosing.                                                               *)
(***************************************************************************)
\* thickness arrays: the curve's domain, and arrays holding 0 or a negative
\* thickness
EngineDomains ==
    {x_vals(mt) : mt \in MaxThicks}
    \cup {<<FromInt(0)>>, <<FromInt(-1)>>, <<FromInt(0), FromInt(-1)>>,
          <<FromInt(10), FromInt(0)>>}

\* mu and b_slope: every registry entry's, and a zero and a negative mu
EngineMaterials ==
    {[mu |-> MaterialsDatabase[m].mu, b_slope |-> MaterialsDatabase[m].b_slope] :
        m \in DOMAIN MaterialsDatabase}
    \cup {[mu |-> FromInt(0), b_slope |-> Dec(12, 10)],
          [mu |-> Dec(-5, 10), b_slope |-> Dec(12, 10)]}

\* the call: the function has no raise statement and no check of its
\* arguments, it returns the array
call_engine(args) ==
    [error |-> NoError,
     returned |-> calculate_attenuation(args.thickness_range, args.mu, args.b_slope)]

InitEngine ==
    /\ FirstRun
    /\ \E d \in EngineDomains, m \in EngineMaterials :
        engine_args = <<[thickness_range |-> d, mu |-> m.mu, b_slope |-> m.b_slope]>>
    /\ engine_result = <<>>

CallEngine ==
    /\ engine_args # <<>>
    /\ engine_result = <<>>
    /\ engine_result' = <<call_engine(engine_args[1])>>
    /\ UNCHANGED <<MATERIALS, widgets, outputs, engine_args>>

NextEngine == CallEngine

SpecEngine == InitEngine /\ [][NextEngine]_vars

(***************************************************************************)
(* The claims.                                                             *)
(***************************************************************************)
Positive(x) == ~IsZero(x) /\ x.sign = 0
Negative(x) == ~IsZero(x) /\ x.sign = 1

UnknownSelected == \E i \in DOMAIN selected_mats : selected_mats[i] \notin DOMAIN MATERIALS

\* the last run got to the Mass & Load tab
LoadComputed == error.line # 60

ValidLoadInputs ==
    Positive(wall_h) /\ Positive(wall_w) /\ target_thick > 0 /\ floor_max > 0

\* C1: whenever a selected name is no key of the registry the comparison
\* fails (the KeyError of line 60): nothing is shown, no table row is built
\* and no line is drawn for a name the registry does not know
C1_UnknownMaterialFails ==
    UnknownSelected =>
        /\ error = [type |-> "KeyError", line |-> 60]
        /\ shown = <<>>
        /\ table_data = <<>>
        /\ \A i \in DOMAIN plotted : plotted[i].label \in DOMAIN MATERIALS

\* a selection the user made that ends with an unknown name has failed after
\* the line of the known name before it
C1_UnknownSelectionFailed ==
    /\ selected_mats = <<"Iron (Fe)", "Concrete">>
    /\ error.type = "KeyError"
    /\ Len(plotted) = 1

\* C2: a wall with height, width or thickness <= 0, or a floor limit <= 0,
\* is rejected with InvalidGeometryError or InvalidCapacityError and nothing
\* of the load is computed or shown
C2_InvalidInputsRejected ==
    (LoadComputed /\ ~ValidLoadInputs) =>
        /\ error.type \in {"InvalidGeometryError", "InvalidCapacityError"}
        /\ load = NoLoad
        /\ metrics = <<>>
        /\ message = NoMessage

C4_EmptySelectionIsEmptyResult ==
    (selected_mats = <<>>) =>
        /\ error.line \notin 47..83
        /\ plotted = <<>>
        /\ table_data = <<>>
        /\ shown = <<"pyplot", "table">>

\* the user emptied the selection and the run went through
C4_EmptySelectionRan ==
    /\ selected_mats = <<>>
    /\ error = NoError
    /\ shown = <<"pyplot", "table">>

\* C5: when every selected name is a key of the registry, there is one line
\* and one table row per selected name, the i-th for the i-th name
C5_OneEntryPerSelectedInOrder ==
    (~UnknownSelected) =>
        /\ Len(plotted) = Len(selected_mats)
        /\ Len(table_data) = Len(selected_mats)
        /\ \A i \in DOMAIN selected_mats :
              /\ plotted[i].label = selected_mats[i]
              /\ plotted[i].color = MATERIALS[selected_mats[i]].color
              /\ table_data[i].Material = selected_mats[i]
              /\ table_data[i].Density = MATERIALS[selected_mats[i]].density

\* two names selected in an order that is not the registry's
C5_TwoSelectedInPickOrder ==
    /\ selected_mats = <<"Water (H2O)", "Lead (Pb)">>
    /\ Len(plotted) = 2
    /\ table_data[1].Material = "Water (H2O)"

C7_ZeroThicknessTransmitsAll ==
    /\ \A mt \in MaxThicks : IsZero(x_vals(mt)[1])
    /\ \A i \in DOMAIN plotted : plotted[i].y_vals[1].value = <<One>>
    /\ (engine_result # <<>>) =>
          \A i \in DOMAIN engine_args[1].thickness_range :
              IsZero(engine_args[1].thickness_range[i]) =>
                  engine_result[1].returned[i].value = <<One>>

\* the engine has returned the curve of water over the domain of the page
C7_WaterCurveStartsAtOne ==
    /\ engine_result # <<>>
    /\ engine_args[1].thickness_range = x_vals(50)
    /\ engine_args[1].mu = MaterialsDatabase["Water (H2O)"].mu
    /\ engine_result[1].returned[1].value = <<One>>

\* C8: a call of the engine with a negative thickness or with mu <= 0 fails
\* with InvalidDomainError and returns no transmission value
C8_InvalidDomainRejected ==
    (/\ engine_result # <<>>
     /\ \/ \E i \in DOMAIN engine_args[1].thickness_range :
              Negative(engine_args[1].thickness_range[i])
        \/ ~Positive(engine_args[1].mu)) =>
        /\ engine_result[1].error.type = "InvalidDomainError"
        /\ engine_result[1].returned = <<>>

\* C9: the registry is the dict the script starts with, with its ten keys,
\* and every entry has mu > 0, density > 0 and b_slope >= 0
C9_RegistryConstant ==
    /\ MATERIALS = MaterialsDatabase
    /\ Cardinality(DOMAIN MATERIALS) = 10
    /\ \A m \in DOMAIN MATERIALS :
          /\ Positive(MATERIALS[m].mu)
          /\ Positive(MATERIALS[m].density)
          /\ ~Negative(MATERIALS[m].b_slope)

\* both tabs have run to their end for widget values the user set
C9_BothTabsRan ==
    /\ error = NoError
    /\ Len(plotted) = 2
    /\ target_mat = "Iron (Fe)"
    /\ message.kind = "error"

\* C10: for a valid wall the loading is density * 10 * thickness, and every
\* other valid wall of the same material and thickness on the same floor
\* gets the same verdict
C10_LoadIndependentOfFace ==
    (LoadComputed /\ ValidLoadInputs) =>
        /\ load.loading =
              <<FMul(FMul(MATERIALS[target_mat].density, FromInt(10)), FromInt(target_thick))>>
        /\ \A h \in Heights, w \in Widths :
              (Positive(h) /\ Positive(w)) =>
                  StructuralRuns[MATERIALS][target_mat, target_thick, h, w, floor_max].message.kind
                      = message.kind
====
